---------------------------- MODULE Spec2Model ----------------------------
(***************************************************************************)
(* Model of the fog-glow convolution machinery of                          *)
(* source/blender/compositor/operations/COM_GlareFogGlowOperation.cc:      *)
(* next_pow2, revbin_upd, FHT, FHT2D, fht_convolve and convolve.           *)
(*                                                                         *)
(* Samples (fREAL) are modelled by exact numbers of the field Q(sqrt 2):   *)
(* <<a, b, d>> stands for (a + b*sqrt(2)) / d, kept in lowest terms with   *)
(* d > 0.  The butterfly coefficients of every FHT of length <= 8 lie in   *)
(* this field (cos(pi/4) = sin(pi/4) = sqrt(2)/2), so the transforms of    *)
(* those lengths are computed here exactly as the code computes them,      *)
(* without rounding.  Buffers are functions over 0 .. len-1, as C arrays.  *)
(***************************************************************************)
EXTENDS Integers, Sequences, FiniteSets, TLC

VARIABLES
  \* ---- harness of the transform routines (FHT, FHT2D, fht_convolve) ----
  stage,    \* which routine calls have been applied to buf
  buf,      \* the buffer the routines work on in place (d1 of fht_convolve)
  bufB,     \* the second, read-only operand (d2 of fht_convolve)
  buf0,     \* the content of buf before the first call
  dimM,     \* log2 of the buffer's width  (Mx)
  dimN,     \* log2 of the buffer's height (My)
  loc,      \* the locals of a loop that is followed one iteration per step
  \* ---- one call of convolve(dst, in1, in2) ----
  pc,             \* the position of the call
  image_width, image_height, image_buffer,      \* in1
  kernel_width, kernel_height, kernel_buffer,   \* in2
  dst,            \* the caller's destination buffer
  rdst,           \* the internal result buffer
  data1, data2,   \* the scratch buffers (<<>> while not allocated)
  xbl, ybl, ch, in2done,
  fault,          \* "none", or the undefined operation the call has executed
  image0, kernel0,  \* the input buffers as they were when the call started
  kernel_log,     \* the copies and transforms of kernel channels made so far, in order
  src_reads,      \* the source coordinates the last tile copy read
  dst_writes      \* the destination coordinates the last overlap-add wrote

hvars == <<stage, buf, bufB, buf0, dimM, dimN, loc>>
cvars == <<pc, image_width, image_height, image_buffer, kernel_width, kernel_height,
           kernel_buffer, dst, rdst, data1, data2, xbl, ybl, ch, in2done, fault,
           image0, kernel0, kernel_log, src_reads, dst_writes>>
vars == <<hvars, cvars>>

\* ---- bounds of the checked instances ----
MaxM1 == 2      \* 1D transforms of length 2 .. 2^MaxM1
MaxMT == 3      \* transposed buffers of 2^Mx x 2^My samples, Mx, My in 0 .. MaxMT
MaxMC == 2      \* circular convolutions of 2^Mx x 2^My samples, Mx, My in 1 .. MaxMC
MaxW == 4       \* image widths 1 .. MaxW
MaxH == 5       \* image heights 1 .. MaxH
MaxKW == 2      \* kernel widths 1 .. MaxKW
MaxKH == 3      \* kernel heights 1 .. MaxKH

\* ---- program constants ----
COM_DATA_TYPE_COLOR_CHANNELS == 4   \* floats per pixel of a colour buffer
NumChannels == 3                    \* for (ch = 0; ch < 3; ch++)

-----------------------------------------------------------------------------
(* Integer helpers: the C operators <<, >>, &, ^ on unsigned values.       *)

RECURSIVE Pow2(_)
Pow2(k) == IF k <= 0 THEN 1 ELSE 2 * Pow2(k - 1)

Shl(x, k) == x * Pow2(k)
Shr(x, k) == x \div Pow2(k)

RECURSIVE BitAnd(_, _)
BitAnd(a, b) ==
  IF a = 0 \/ b = 0 THEN 0
  ELSE 2 * BitAnd(a \div 2, b \div 2) + (IF a % 2 = 1 /\ b % 2 = 1 THEN 1 ELSE 0)

RECURSIVE BitXor(_, _)
BitXor(a, b) ==
  IF a = 0 THEN b
  ELSE IF b = 0 THEN a
  ELSE 2 * BitXor(a \div 2, b \div 2) + ((a + b) % 2)

Abs(x) == IF x < 0 THEN -x ELSE x

RECURSIVE GCD(_, _)
GCD(a, b) == IF b = 0 THEN a ELSE GCD(b, a % b)

-----------------------------------------------------------------------------
(* Exact sample arithmetic in Q(sqrt 2).                                   *)

\* <<a, b, d>> divided through by g > 0, with the sign moved to the numerators
QReduce(a, b, d, g) ==
  IF d < 0 THEN <<(-a) \div g, (-b) \div g, (-d) \div g>>
           ELSE <<a \div g, b \div g, d \div g>>

QNorm(a, b, d) == QReduce(a, b, d, GCD(GCD(Abs(a), Abs(b)), Abs(d)))

Q(n) == <<n, 0, 1>>
QZero == <<0, 0, 1>>
QOne == <<1, 0, 1>>
QHalf == <<1, 0, 2>>

QAdd(x, y) == QNorm(x[1] * y[3] + y[1] * x[3], x[2] * y[3] + y[2] * x[3], x[3] * y[3])
QSub(x, y) == QNorm(x[1] * y[3] - y[1] * x[3], x[2] * y[3] - y[2] * x[3], x[3] * y[3])
QMul(x, y) == QNorm(x[1] * y[1] + 2 * x[2] * y[2], x[1] * y[2] + x[2] * y[1], x[3] * y[3])
\* 1 / x for x # 0: d * (a - b*sqrt 2) / (a*a - 2*b*b)
QInv(x) == QNorm(x[3] * x[1], -(x[3] * x[2]), x[1] * x[1] - 2 * x[2] * x[2])

Swap(data, p, q) == [data EXCEPT ![p] = data[q], ![q] = data[p]]

\* data[p] = data[q] - t  and  data[p] = data[q] + t
SubAt(data, p, q, t) == [data EXCEPT ![p] = QSub(data[q], t)]
AddAt(data, p, q, t) == [data EXCEPT ![p] = QAdd(data[q], t)]

\* TLC defers the evaluation of an operator's arguments.  The loops below test
\* Computed(data), which is TRUE of every buffer, before they go on, so that
\* each iteration is evaluated when it is reached and not all at the end.
Computed(d) == DOMAIN d # {}

-----------------------------------------------------------------------------
(* revbin_upd: the next index in bit-reversed order.                       *)

RECURSIVE revbin_upd(_, _)
revbin_upd(r, h) ==
  IF BitAnd(BitXor(r, h), h) # 0 THEN BitXor(r, h) ELSE revbin_upd(BitXor(r, h), h \div 2)

-----------------------------------------------------------------------------
(* FHT(data, M, inverse), on the 2^M samples of data that start at index   *)
(* off (the code passes the pointer &data[off]).                           *)

\* cos(a) at the butterfly stage of half-width n, where a = pi / n
\* (a starts at M_PI and is halved after every stage).
CosStage(n) == CASE n = 1 -> <<-1, 0, 1>>
                 [] n = 2 -> QZero
                 [] n = 4 -> <<0, 1, 2>>

\* sqrt(x) for the values 1 - cos(a)^2 of those stages
QSqrt(x) == CASE x = QZero -> QZero
              [] x = QOne -> QOne
              [] x = QHalf -> <<0, 1, 2>>

\* (mutant of FHT_revbin_swap: the guard is j != i)
FHT_revbin_swap_both(data, off, i, j) ==
  IF j # i THEN Swap(data, off + i, off + j) ELSE data

\* j = revbin_upd(j, Nh); if (j > i) swap data[i], data[j]  (j is the new j)
FHT_revbin_swap(data, off, i, j) == IF j > i THEN Swap(data, off + i, off + j) ELSE data

\* the bit-reversal permutation loop; j is the value before the iteration
RECURSIVE FHT_revbin(_, _, _, _, _, _)
FHT_revbin(data, off, i, j, len, Nh) ==
  IF Computed(data) /\ i < len - 1
  THEN FHT_revbin(FHT_revbin_swap(data, off, i, revbin_upd(j, Nh)), off, i + 1,
                  revbin_upd(j, Nh), len, Nh)
  ELSE data

\* (mutant of Butterfly: the difference is taken the other way round)
Butterfly_reversed(data, off, n, k) ==
  LET t1 == data[off + n + k]
  IN  [data EXCEPT ![off + n + k] = QSub(t1, data[off + k]),
                   ![off + k] = QAdd(data[off + k], t1)]

\* one butterfly without rotation: data_n[k] = data[k] - t1; data[k] += t1
Butterfly(data, off, n, k) ==
  LET t1 == data[off + n + k]
  IN  [data EXCEPT ![off + n + k] = QSub(data[off + k], t1),
                   ![off + k] = QAdd(data[off + k], t1)]

\* for (k = k0; k < len; k += istep) butterfly
RECURSIVE FHT_plain(_, _, _, _, _, _)
FHT_plain(data, off, n, k, len, istep) ==
  IF Computed(data) /\ k < len
  THEN FHT_plain(Butterfly(data, off, n, k), off, n, k + istep, len, istep)
  ELSE data

\* the four stores of a rotated butterfly, in the order of the code:
\* data_n[k] = data[k] - t1; data_nbd[k] = data_bd[k] - t2;
\* data[k] += t1; data_bd[k] += t2
Rotated_store(data, off, n, bd, k, t1, t2) ==
  AddAt(AddAt(SubAt(SubAt(data, off + n + k, off + k, t1),
                    off + n + bd + k, off + bd + k, t2),
              off + k, off + k, t1),
        off + bd + k, off + bd + k, t2)

\* one rotated butterfly of the bl loop:
\* t1 = fc * data_n[k] + fs * data_nbd[k]; t2 = fs * data_n[k] - fc * data_nbd[k]
Rotated(data, off, n, bd, k, fc, fs) ==
  Rotated_store(data, off, n, bd, k,
                QAdd(QMul(fc, data[off + n + k]), QMul(fs, data[off + n + bd + k])),
                QSub(QMul(fs, data[off + n + k]), QMul(fc, data[off + n + bd + k])))

RECURSIVE FHT_rot_k(_, _, _, _, _, _, _, _, _)
FHT_rot_k(data, off, n, bd, k, len, istep, fc, fs) ==
  IF Computed(data) /\ k < len
  THEN FHT_rot_k(Rotated(data, off, n, bd, k, fc, fs), off, n, bd, k + istep, len, istep,
                 fc, fs)
  ELSE data

\* for (bl = 1; bl < n2; bl++) { ...; tt = fc*dc - fs*ds; fs = fs*dc + fc*ds; fc = tt; bd -= 2 }
RECURSIVE FHT_rot_bl(_, _, _, _, _, _, _, _, _, _, _, _)
FHT_rot_bl(data, off, n, bd, bl, n2, len, istep, fc, fs, dc, ds) ==
  IF Computed(data) /\ bl < n2
  THEN FHT_rot_bl(FHT_rot_k(data, off, n, bd, bl, len, istep, fc, fs),
                  off, n, bd - 2, bl + 1, n2, len, istep,
                  QSub(QMul(fc, dc), QMul(fs, ds)), QAdd(QMul(fs, dc), QMul(fc, ds)),
                  dc, ds)
  ELSE data

\* if (n > 2) { fc = dc = cos(a); fs = ds = sqrt(1.0 - fc * fc); bd = n - 2; bl loop }
FHT_rot(data, off, n, len) ==
  IF n > 2
  THEN LET fc == CosStage(n)
           fs == QSqrt(QSub(QOne, QMul(CosStage(n), CosStage(n))))
       IN  FHT_rot_bl(data, off, n, n - 2, 1, n \div 2, len, 2 * n, fc, fs, fc, fs)
  ELSE data

\* if (n > 1) for (k = n2; k < len; k += istep) butterfly
FHT_mid(data, off, n, len) ==
  IF n > 1 THEN FHT_plain(data, off, n, n \div 2, len, 2 * n) ELSE data

\* the body of the do-while loop for one n
FHT_stage(data, off, n, len) ==
  FHT_mid(FHT_rot(FHT_plain(data, off, n, 0, len, 2 * n), off, n, len), off, n, len)

\* do { ... n = istep; } while (n < len);  data is the buffer after the body
\* for n, and the loop goes on with 2 * n
RECURSIVE FHT_stages(_, _, _, _)
FHT_stages(data, off, n, len) ==
  IF Computed(data) /\ 2 * n < len
  THEN FHT_stages(FHT_stage(data, off, 2 * n, len), off, 2 * n, len)
  ELSE data

\* (mutant of FHT_scale: the samples are multiplied by 1 / (len / 2))
FHT_scale_half(data, off, len) ==
  [p \in DOMAIN data |->
     IF off <= p /\ p < off + len THEN QMul(data[p], QInv(Q(len \div 2))) ELSE data[p]]

\* every sample is multiplied by sc = 1 / len
FHT_scale(data, off, len) ==
  [p \in DOMAIN data |->
     IF off <= p /\ p < off + len THEN QMul(data[p], QInv(Q(len))) ELSE data[p]]

\* if (inverse) { scale }
FHT_inverse(data, off, len, inverse) ==
  IF inverse # 0 THEN FHT_scale(data, off, len) ELSE data

FHT(data, off, M, inverse) ==
  FHT_inverse(FHT_stages(FHT_stage(FHT_revbin(data, off, 1, 0, Shl(1, M), Shr(Shl(1, M), 1)),
                                   off, 1, Shl(1, M)),
                         off, 1, Shl(1, M)),
              off, Shl(1, M), inverse)

\* the highest index FHT touches, plus one: the first stage reads and
\* writes data[1] even when len = 1
FHT_extent(off, M) == off + (IF M = 0 THEN 2 ELSE Shl(1, M))

-----------------------------------------------------------------------------
(* FHT2D(data, Mx, My, nzp, inverse) on the buffer that starts at off.     *)

\* for (j = j0; j < count; j++) FHT(&data[Nx * j], Mx, inverse)
RECURSIVE FHT2D_rows(_, _, _, _, _, _, _)
FHT2D_rows(data, off, j, count, Nx, Mx, inverse) ==
  IF Computed(data) /\ j < count
  THEN FHT2D_rows(FHT(data, off + Nx * j, Mx, inverse), off, j + 1, count, Nx, Mx, inverse)
  ELSE data

\* square transpose: the inner loop over i = j+1 .. Nx-1, with
\* op = i + (j << Mx), np = j + (i << My)
RECURSIVE TransposeSquare_i(_, _, _, _, _, _, _)
TransposeSquare_i(data, off, j, i, Nx, Mx, My) ==
  IF Computed(data) /\ i < Nx
  THEN TransposeSquare_i(Swap(data, off + i + Shl(j, Mx), off + j + Shl(i, My)),
                         off, j, i + 1, Nx, Mx, My)
  ELSE data

RECURSIVE TransposeSquare(_, _, _, _, _, _, _)
TransposeSquare(data, off, j, Nx, Ny, Mx, My) ==
  IF Computed(data) /\ j < Ny
  THEN TransposeSquare(TransposeSquare_i(data, off, j, j + 1, Nx, Mx, My),
                       off, j + 1, Nx, Ny, Mx, My)
  ELSE data

\* #define PRED(k) (((k & Nym) << Mx) + (k >> My))
PRED(k, Nym, Mx, My) == Shl(BitAnd(k, Nym), Mx) + Shr(k, My)

\* for (j = PRED(i); j > i; j = PRED(j)) {}  -- the value of j at loop exit
RECURSIVE PredScan(_, _, _, _, _)
PredScan(j, i, Nym, Mx, My) ==
  IF j > i THEN PredScan(PRED(j, Nym, Mx, My), i, Nym, Mx, My) ELSE j

\* (mutant of CycleSwap: every swap is made with data[i], the start of the cycle)
RECURSIVE CycleSwap_start(_, _, _, _, _, _, _, _, _)
CycleSwap_start(data, off, k, j, i, stm, Nym, Mx, My) ==
  IF Computed(data) /\ j # i
  THEN CycleSwap_start(Swap(data, off + j, off + i), off, j, PRED(j, Nym, Mx, My), i,
                       stm - 1, Nym, Mx, My)
  ELSE <<data, stm>>

\* for (k = i, j = PRED(i); j != i; k = j, j = PRED(j), stm--) SWAP(data[j], data[k])
\* returns <<data, stm>>
RECURSIVE CycleSwap(_, _, _, _, _, _, _, _, _)
CycleSwap(data, off, k, j, i, stm, Nym, Mx, My) ==
  IF Computed(data) /\ j # i
  THEN CycleSwap(Swap(data, off + j, off + k), off, j, PRED(j, Nym, Mx, My), i,
                 stm - 1, Nym, Mx, My)
  ELSE <<data, stm>>

\* the stm-- that ends an iteration of the outer loop; st is <<data, stm>>
CycleDone(st) == <<st[1], st[2] - 1>>

\* the body of the outer loop for one i: scan; if (j < i) continue; cycle; stm--;
\* st is <<data, stm>>
TransposeRect_i(st, off, i, Nym, Mx, My) ==
  IF PredScan(PRED(i, Nym, Mx, My), i, Nym, Mx, My) < i
  THEN st
  ELSE CycleDone(CycleSwap(st[1], off, i, PRED(i, Nym, Mx, My), i, st[2], Nym, Mx, My))

\* the iterations i = lo .. hi-1 of for (i = 0; stm > 0; i++), as far as the
\* loop gets before stm reaches 0; the range is halved so that the evaluation
\* nests only log2(hi - lo) deep
RECURSIVE TransposeRect_range(_, _, _, _, _, _, _)
TransposeRect_range(st, off, lo, hi, Nym, Mx, My) ==
  IF Computed(st[1]) /\ st[2] # 0
  THEN IF hi - lo <= 1
       THEN TransposeRect_i(st, off, lo, Nym, Mx, My)
       ELSE TransposeRect_range(
              TransposeRect_range(st, off, lo, lo + ((hi - lo) \div 2), Nym, Mx, My),
              off, lo + ((hi - lo) \div 2), hi, Nym, Mx, My)
  ELSE st

\* for (i = 0; stm > 0; i++) { ... }: the loop from i on, taken in ranges
\* of span iterations until stm is 0
RECURSIVE TransposeRect(_, _, _, _, _, _, _)
TransposeRect(st, off, i, span, Nym, Mx, My) ==
  IF Computed(st[1]) /\ st[2] # 0
  THEN TransposeRect(TransposeRect_range(st, off, i, i + span, Nym, Mx, My),
                     off, i + span, span, Nym, Mx, My)
  ELSE st[1]

\* the transpose step of FHT2D
Transpose(data, off, Mx, My) ==
  IF Shl(1, Mx) = Shl(1, My)
  THEN TransposeSquare(data, off, 0, Shl(1, Mx), Shl(1, My), Mx, My)
  ELSE TransposeRect(<<data, Shl(1, Mx + My)>>, off, 0, Shl(1, Mx + My),
                     Shl(1, My) - 1, Mx, My)

\* E = 0.5 * ((A + D) - (B + C))
Finalize_E(A, B, C, D) == QMul(QHalf, QSub(QAdd(A, D), QAdd(B, C)))

\* data[pA] = A - E; data[pB] = B + E; data[pC] = C + E; data[pD] = D - E,
\* in this order, A .. D being the samples read before the first store
Finalize_store(data, pA, pB, pC, pD, E) ==
  [data EXCEPT ![pA] = QSub(data[pA], E), ![pB] = QAdd(data[pB], E),
               ![pC] = QAdd(data[pC], E), ![pD] = QSub(data[pD], E)]

\* one step of the finalize loop; pj = ji, pjm = jmi, im as in the code
Finalize_at(data, off, pj, pjm, i, im) ==
  Finalize_store(data, off + pj + i, off + pjm + i, off + pj + im, off + pjm + im,
                 Finalize_E(data[off + pj + i], data[off + pjm + i],
                            data[off + pj + im], data[off + pjm + im]))

\* jm = (Ny - j) & (Ny - 1); ji = j << Mx; jmi = jm << Mx; im = (Nx - i) & (Nx - 1);
\* Nx, Mx are the swapped (transposed) sizes
Finalize_ji(data, off, j, i, Nx, Ny, Mx) ==
  Finalize_at(data, off, Shl(j, Mx), Shl(BitAnd(Ny - j, Ny - 1), Mx), i,
              BitAnd(Nx - i, Nx - 1))

RECURSIVE Finalize_i(_, _, _, _, _, _, _)
Finalize_i(data, off, j, i, Nx, Ny, Mx) ==
  IF Computed(data) /\ i <= Shr(Nx, 1)
  THEN Finalize_i(Finalize_ji(data, off, j, i, Nx, Ny, Mx), off, j, i + 1, Nx, Ny, Mx)
  ELSE data

RECURSIVE Finalize(_, _, _, _, _, _)
Finalize(data, off, j, Nx, Ny, Mx) ==
  IF Computed(data) /\ j <= Shr(Ny, 1)
  THEN Finalize(Finalize_i(data, off, j, 0, Nx, Ny, Mx), off, j + 1, Nx, Ny, Mx)
  ELSE data

\* maxy = inverse ? Ny : nzp
FHT2D_maxy(Ny, nzp, inverse) == IF inverse # 0 THEN Ny ELSE nzp

\* rows, transpose, SWAP(Nx, Ny), SWAP(Mx, My), columns (now rows of length
\* Ny, Nx of them), finalize
FHT2D(data, off, Mx, My, nzp, inverse) ==
  Finalize(FHT2D_rows(Transpose(FHT2D_rows(data, off, 0,
                                           FHT2D_maxy(Shl(1, My), nzp, inverse),
                                           Shl(1, Mx), Mx, inverse),
                                off, Mx, My),
                      off, 0, Shl(1, Mx), Shl(1, My), My, inverse),
           off, 0, Shl(1, My), Shl(1, Mx), My)

\* One past the highest index the row and column passes of FHT2D touch,
\* relative to off (transpose and finalize stay below Nx * Ny).
FHT2D_extent(Mx, My, nzp, inverse) ==
  LET Nx == Shl(1, Mx)
      Ny == Shl(1, My)
      maxy == FHT2D_maxy(Ny, nzp, inverse)
      rowsEnd == IF maxy = 0 THEN 0 ELSE FHT_extent(Nx * (maxy - 1), Mx)
      colsEnd == FHT_extent(Ny * (Nx - 1), My)
  IN  IF rowsEnd > colsEnd THEN rowsEnd ELSE colsEnd

-----------------------------------------------------------------------------
(* fht_convolve(d1, d2, M, N): d1 *= d2 in the Hartley domain.  d1 starts  *)
(* at o1 of its buffer and d2 (const) at o2 of its buffer.                 *)

\* (mutant of MirrorStore: the two results are stored the other way round)
MirrorStore_crossed(d1, P, Q2, a, b) ==
  [d1 EXCEPT ![P] = QMul(QSub(b, a), QHalf), ![Q2] = QMul(QAdd(b, a), QHalf)]

\* d1[p] = (b + a) * 0.5; d1[q] = (b - a) * 0.5
MirrorStore(d1, P, Q2, a, b) ==
  [d1 EXCEPT ![P] = QMul(QAdd(b, a), QHalf), ![Q2] = QMul(QSub(b, a), QHalf)]

\* a = d1[p]*d2[p] - d1[q]*d2[q]; b = d1[q]*d2[p] + d1[p]*d2[q]; then the stores
MirrorPair(d1, o1, d2, o2, p, q) ==
  MirrorStore(d1, o1 + p, o1 + q,
              QSub(QMul(d1[o1 + p], d2[o2 + p]), QMul(d1[o1 + q], d2[o2 + q])),
              QAdd(QMul(d1[o1 + q], d2[o2 + p]), QMul(d1[o1 + p], d2[o2 + q])))

\* (mutant of SelfMirror: the bin is multiplied by itself)
SelfMirror_squared(d1, o1, d2, o2, p) ==
  [d1 EXCEPT ![o1 + p] = QMul(d1[o1 + p], d1[o1 + p])]

\* d1[p] *= d2[p]
SelfMirror(d1, o1, d2, o2, p) == [d1 EXCEPT ![o1 + p] = QMul(d1[o1 + p], d2[o2 + p])]

\* for (i = 1; i < m2; i++): the two border rows 0 and n/2, with k = m - i
RECURSIVE Convolve_rows(_, _, _, _, _, _, _, _)
Convolve_rows(d1, o1, d2, o2, i, m, m2, mn2) ==
  IF Computed(d1) /\ i < m2
  THEN Convolve_rows(MirrorPair(MirrorPair(d1, o1, d2, o2, i, m - i),
                                o1, d2, o2, i + mn2, (m - i) + mn2),
                     o1, d2, o2, i + 1, m, m2, mn2)
  ELSE d1

\* for (j = 1; j < n2; j++): the two border columns 0 and m/2, with
\* L = n - j, mj = j << M, mL = L << M
RECURSIVE Convolve_cols(_, _, _, _, _, _, _, _, _)
Convolve_cols(d1, o1, d2, o2, j, n, n2, m2, M) ==
  IF Computed(d1) /\ j < n2
  THEN Convolve_cols(MirrorPair(MirrorPair(d1, o1, d2, o2, Shl(j, M), Shl(n - j, M)),
                                o1, d2, o2, m2 + Shl(j, M), m2 + Shl(n - j, M)),
                     o1, d2, o2, j + 1, n, n2, m2, M)
  ELSE d1

\* the inner loop over j of the interior
RECURSIVE Convolve_inner_j(_, _, _, _, _, _, _, _, _, _)
Convolve_inner_j(d1, o1, d2, o2, i, k, j, n, n2, M) ==
  IF Computed(d1) /\ j < n2
  THEN Convolve_inner_j(MirrorPair(MirrorPair(d1, o1, d2, o2,
                                              i + Shl(j, M), k + Shl(n - j, M)),
                                   o1, d2, o2, i + Shl(n - j, M), k + Shl(j, M)),
                        o1, d2, o2, i, k, j + 1, n, n2, M)
  ELSE d1

\* for (i = 1; i < m2; i++) { k = m - i; inner loop }
RECURSIVE Convolve_inner(_, _, _, _, _, _, _, _, _, _)
Convolve_inner(d1, o1, d2, o2, i, m, m2, n, n2, M) ==
  IF Computed(d1) /\ i < m2
  THEN Convolve_inner(Convolve_inner_j(d1, o1, d2, o2, i, m - i, 1, n, n2, M),
                      o1, d2, o2, i + 1, m, m2, n, n2, M)
  ELSE d1

\* 1 << (M - 1) and m << (N - 1) shift by (unsigned)-1 when M or N is 0
fht_convolve_defined(M, N) == M >= 1 /\ N >= 1

\* d1[0] *= d2[0]; d1[mn2] *= d2[mn2]; d1[m2] *= d2[m2]; d1[m2 + mn2] *= d2[m2 + mn2]
Convolve_fixed(d1, o1, d2, o2, m2, mn2) ==
  SelfMirror(SelfMirror(SelfMirror(SelfMirror(d1, o1, d2, o2, 0), o1, d2, o2, mn2),
                        o1, d2, o2, m2),
             o1, d2, o2, m2 + mn2)

\* the three loops, with m = 1 << M, n = 1 << N, m2 = 1 << (M - 1),
\* n2 = 1 << (N - 1), mn2 = m << (N - 1)
Convolve_loops(d1, o1, d2, o2, M, m, n, m2, n2, mn2) ==
  Convolve_inner(Convolve_cols(Convolve_rows(Convolve_fixed(d1, o1, d2, o2, m2, mn2),
                                             o1, d2, o2, 1, m, m2, mn2),
                               o1, d2, o2, 1, n, n2, m2, M),
                 o1, d2, o2, 1, m, m2, n, n2, M)

fht_convolve(d1, o1, d2, o2, M, N) ==
  Convolve_loops(d1, o1, d2, o2, M, Shl(1, M), Shl(1, N), Shl(1, M - 1), Shl(1, N - 1),
                 Shl(Shl(1, M), N - 1))

-----------------------------------------------------------------------------
(* next_pow2(x, &L2): returns [pw, L2].                                    *)

\* while (x >>= 1) ++(*L2);
RECURSIVE Log2Floor(_)
Log2Floor(x) == IF x \div 2 = 0 THEN 0 ELSE 1 + Log2Floor(x \div 2)

next_pow2(x) ==
  LET x_notpow2 == BitAnd(x, x - 1)
      L2 == Log2Floor(x)
      pw == Shl(1, L2)
  IN  IF x_notpow2 # 0 THEN [pw |-> Shl(pw, 1), L2 |-> L2 + 1]
                       ELSE [pw |-> pw, L2 |-> L2]

-----------------------------------------------------------------------------
(* convolve(dst, in1, in2).                                                *)

\* index of channel c of pixel (x, y) in an interleaved buffer of the given width
Pix(x, y, c, width) == (y * width + x) * COM_DATA_TYPE_COLOR_CHANNELS + c

Zeros(len) == [p \in 0 .. len - 1 |-> QZero]

\* locals of convolve that depend only on the dimensions
w2 == next_pow2(2 * kernel_width - 1).pw
h2 == next_pow2(2 * kernel_height - 1).pw
log2_w == next_pow2(2 * kernel_width - 1).L2
log2_h == next_pow2(2 * kernel_height - 1).L2
hw == Shr(kernel_width, 1)
hh == Shr(kernel_height, 1)
xbsz == (w2 + 1) - kernel_width
ybsz == (h2 + 1) - kernel_height
nxb == (image_width \div xbsz) + (IF image_width % xbsz # 0 THEN 1 ELSE 0)
nyb == (image_height \div ybsz) + (IF image_height % ybsz # 0 THEN 1 ELSE 0)
\* zero pad data start passed to the forward FHT2D calls
nzp == kernel_height + 1

\* the state of the module while no convolve call is modelled
ConvolveIdle ==
  /\ pc = "idle"
  /\ image_width = 0 /\ image_height = 0 /\ image_buffer = <<>>
  /\ kernel_width = 0 /\ kernel_height = 0 /\ kernel_buffer = <<>>
  /\ dst = <<>> /\ rdst = <<>> /\ data1 = <<>> /\ data2 = <<>>
  /\ xbl = 0 /\ ybl = 0 /\ ch = 0 /\ in2done = FALSE
  /\ fault = "none"
  /\ image0 = <<>> /\ kernel0 = <<>> /\ kernel_log = <<>>
  /\ src_reads = {} /\ dst_writes = {}

\* rdst = new MemoryBuffer(...), memset 0; data1, data2 = MEM_callocN(...)
Allocate ==
  /\ pc = "entry"
  /\ rdst' = Zeros(image_width * image_height * COM_DATA_TYPE_COLOR_CHANNELS)
  /\ data1' = Zeros(3 * w2 * h2)
  /\ data2' = Zeros(w2 * h2)
  /\ pc' = "normalize"
  /\ UNCHANGED <<image_width, image_height, image_buffer, kernel_width, kernel_height,
                 kernel_buffer, dst, xbl, ybl, ch, in2done, fault, image0, kernel0, kernel_log,
                 src_reads, dst_writes>>
  /\ UNCHANGED hvars

\* add_v3_v3(wt, colp[x]) over the whole kernel: the sum of channel c
RECURSIVE KernelSum(_, _, _)
KernelSum(kbuf, c, p) ==
  IF p >= kernel_width * kernel_height THEN QZero
  ELSE QAdd(kbuf[p * COM_DATA_TYPE_COLOR_CHANNELS + c], KernelSum(kbuf, c, p + 1))

\* (mutant of Weight: a zero sum gives the weight 1)
Weight_one(sum) == IF sum # QZero THEN QInv(sum) ELSE QOne

\* if (wt[c] != 0.0f) wt[c] = 1.0f / wt[c];
Weight(sum) == IF sum # QZero THEN QInv(sum) ELSE sum

\* mul_v3_v3(colp[x], wt) over the whole kernel
NormalizedKernel(kbuf) ==
  [p \in DOMAIN kbuf |->
     IF p % COM_DATA_TYPE_COLOR_CHANNELS < 3
     THEN QMul(kbuf[p], Weight(KernelSum(kbuf, p % COM_DATA_TYPE_COLOR_CHANNELS, 0)))
     ELSE kbuf[p]]

\* "Normalize convolutor", and the block set-up
Normalize ==
  /\ pc = "normalize"
  /\ kernel_buffer' = NormalizedKernel(kernel_buffer)
  /\ xbl' = 0 /\ ybl' = 0 /\ ch' = 0
  /\ pc' = "kernel"
  /\ UNCHANGED <<image_width, image_height, image_buffer, kernel_width, kernel_height,
                 dst, rdst, data1, data2, in2done, fault, image0, kernel0, kernel_log,
                 src_reads, dst_writes>>
  /\ UNCHANGED hvars

\* in2, channel ch -> data1 (only while !in2done)
CopyKernel(d1, kbuf, c) ==
  [p \in DOMAIN d1 |->
     LET q == p - c * w2 * h2
         y == q \div w2
         x == q % w2
     IN  IF q >= 0 /\ q < w2 * h2 /\ y < kernel_height /\ x < kernel_width
         THEN kbuf[Pix(x, y, c, kernel_width)]
         ELSE d1[p]]

\* (mutant of KernelPending: the kernel is handled again on every tile)
KernelPending_always(done) == TRUE

\* if (!in2done)
KernelPending(done) == ~done

LoadKernel ==
  /\ pc = "kernel"
  /\ data1' = (IF KernelPending(in2done) THEN CopyKernel(data1, kernel_buffer, ch)
                                         ELSE data1)
  /\ kernel_log' = (IF KernelPending(in2done) THEN Append(kernel_log, <<"copy", ch>>)
                                              ELSE kernel_log)
  /\ pc' = "tile"
  /\ UNCHANGED <<image_width, image_height, image_buffer, kernel_width, kernel_height,
                 kernel_buffer, dst, rdst, data2, xbl, ybl, ch, in2done, fault,
                 image0, kernel0, src_reads, dst_writes>>
  /\ UNCHANGED hvars

\* the guards of the tile copy: if (yy >= image_height) continue; and the same for xx
TileRowCopied(yy) == ~(yy >= image_height)
TileColCopied(xx) == ~(xx >= image_width)

\* the scratch positions (x, y) of tile (bx, by) that the copy loop fills
TileCells(bx, by) ==
  {c \in (0 .. xbsz - 1) \X (0 .. ybsz - 1) :
     TileRowCopied(by * ybsz + c[2]) /\ TileColCopied(bx * xbsz + c[1])}

\* the source coordinates (xx, yy) read for those positions
TileSource(bx, by) == {<<bx * xbsz + c[1], by * ybsz + c[2]>> : c \in TileCells(bx, by)}

InImage(xy) == /\ 0 <= xy[1] /\ xy[1] < image_width
               /\ 0 <= xy[2] /\ xy[2] < image_height

\* memset(data2, 0, ...) and the copy of tile (bx, by), channel c
CopyTile(ibuf, bx, by, c) ==
  [p \in 0 .. w2 * h2 - 1 |->
     IF <<p % w2, p \div w2>> \in TileCells(bx, by)
     THEN ibuf[Pix(bx * xbsz + (p % w2), by * ybsz + (p \div w2), c, image_width)]
     ELSE QZero]

LoadTile ==
  /\ pc = "tile"
  /\ src_reads' = TileSource(xbl, ybl)
  /\ IF \A xy \in TileSource(xbl, ybl) : InImage(xy)
     THEN /\ data2' = CopyTile(image_buffer, xbl, ybl, ch)
          /\ pc' = "forward"
          /\ fault' = fault
     ELSE /\ data2' = data2
          /\ pc' = "crashed"
          /\ fault' = "source index out of range"
  /\ UNCHANGED <<image_width, image_height, image_buffer, kernel_width, kernel_height,
                 kernel_buffer, dst, rdst, data1, xbl, ybl, ch, in2done,
                 image0, kernel0, kernel_log, dst_writes>>
  /\ UNCHANGED hvars

\* the two forward FHT2D calls stay inside data1 and data2
ForwardDefined ==
  /\ ~KernelPending(in2done)
     \/ ch * w2 * h2 + FHT2D_extent(log2_w, log2_h, nzp, 0) <= 3 * w2 * h2
  /\ FHT2D_extent(log2_w, log2_h, nzp, 0) <= w2 * h2

\* if (!in2done) FHT2D(data1ch, ...); FHT2D(data2, ...)
Forward ==
  /\ pc = "forward"
  /\ ForwardDefined
  /\ data1' = (IF KernelPending(in2done)
               THEN FHT2D(data1, ch * w2 * h2, log2_w, log2_h, nzp, 0)
               ELSE data1)
  /\ kernel_log' = (IF KernelPending(in2done) THEN Append(kernel_log, <<"FHT2D", ch>>)
                                              ELSE kernel_log)
  /\ data2' = FHT2D(data2, 0, log2_w, log2_h, nzp, 0)
  /\ pc' = "multiply"
  /\ UNCHANGED <<image_width, image_height, image_buffer, kernel_width, kernel_height,
                 kernel_buffer, dst, rdst, xbl, ybl, ch, in2done, fault,
                 image0, kernel0, src_reads, dst_writes>>
  /\ UNCHANGED hvars

\* fht_convolve(data2, data1ch, log2_h, log2_w)
Multiply ==
  /\ pc = "multiply"
  /\ fht_convolve_defined(log2_h, log2_w)
  /\ data2' = fht_convolve(data2, 0, data1, ch * w2 * h2, log2_h, log2_w)
  /\ pc' = "inverse"
  /\ UNCHANGED <<image_width, image_height, image_buffer, kernel_width, kernel_height,
                 kernel_buffer, dst, rdst, data1, xbl, ybl, ch, in2done, fault,
                 image0, kernel0, kernel_log, src_reads, dst_writes>>
  /\ UNCHANGED hvars

InverseDefined == FHT2D_extent(log2_h, log2_w, 0, 1) <= w2 * h2

\* FHT2D(data2, log2_h, log2_w, 0, 1)
Inverse ==
  /\ pc = "inverse"
  /\ InverseDefined
  /\ data2' = FHT2D(data2, 0, log2_h, log2_w, 0, 1)
  /\ pc' = "add"
  /\ UNCHANGED <<image_width, image_height, image_buffer, kernel_width, kernel_height,
                 kernel_buffer, dst, rdst, data1, xbl, ybl, ch, in2done, fault,
                 image0, kernel0, kernel_log, src_reads, dst_writes>>
  /\ UNCHANGED hvars

\* the guards of the overlap-add: if ((yy < 0) || (yy >= image_height)) continue;
AddRowKept(yy) == ~((yy < 0) \/ (yy >= image_height))
\* (mutant of AddColKept: the test xx < 0 is missing)
AddColKept_upper(xx) == ~(xx >= image_width)

AddColKept(xx) == ~((xx < 0) \/ (xx >= image_width))

\* the scratch positions (x, y) of tile (bx, by) whose result is accumulated
AddCells(bx, by) ==
  {c \in (0 .. w2 - 1) \X (0 .. h2 - 1) :
     AddRowKept(by * ybsz + c[2] - hh) /\ AddColKept(bx * xbsz + c[1] - hw)}

\* the destination coordinates (xx, yy) they are accumulated into
AddTarget(bx, by) ==
  {<<bx * xbsz + c[1] - hw, by * ybsz + c[2] - hh>> : c \in AddCells(bx, by)}

\* colp[xx][ch] += fp[x] over the kept positions
OverlapAdd(r, d2, bx, by, c) ==
  [p \in DOMAIN r |->
     LET q == p \div COM_DATA_TYPE_COLOR_CHANNELS
         x == (q % image_width) - bx * xbsz + hw
         y == (q \div image_width) - by * ybsz + hh
     IN  IF p % COM_DATA_TYPE_COLOR_CHANNELS = c /\ <<x, y>> \in AddCells(bx, by)
         THEN QAdd(r[p], d2[y * w2 + x])
         ELSE r[p]]

\* the overlap-add of one channel, and the step of the three nested loops
Accumulate ==
  /\ pc = "add"
  /\ dst_writes' = AddTarget(xbl, ybl)
  /\ IF \A xy \in AddTarget(xbl, ybl) : InImage(xy)
     THEN /\ rdst' = OverlapAdd(rdst, data2, xbl, ybl, ch)
          /\ fault' = fault
          /\ IF ch + 1 < NumChannels
             THEN /\ ch' = ch + 1
                  /\ UNCHANGED <<xbl, ybl, in2done>>
                  /\ pc' = "kernel"
             ELSE /\ ch' = 0
                  /\ in2done' = TRUE
                  /\ IF xbl + 1 < nxb
                     THEN /\ xbl' = xbl + 1 /\ ybl' = ybl /\ pc' = "kernel"
                     ELSE /\ xbl' = 0
                          /\ ybl' = ybl + 1
                          /\ pc' = (IF ybl + 1 < nyb THEN "kernel" ELSE "finish")
     ELSE /\ pc' = "crashed"
          /\ fault' = "destination index out of range"
          /\ UNCHANGED <<rdst, xbl, ybl, ch, in2done>>
  /\ UNCHANGED <<image_width, image_height, image_buffer, kernel_width, kernel_height,
                 kernel_buffer, dst, data1, data2, image0, kernel0, kernel_log, src_reads>>
  /\ UNCHANGED hvars

\* MEM_freeN(data2); MEM_freeN(data1); memcpy(dst, rdst->get_buffer(), ...); delete rdst
Finish ==
  /\ pc = "finish"
  /\ dst' = rdst
  /\ data1' = <<>>
  /\ data2' = <<>>
  /\ rdst' = <<>>
  /\ pc' = "done"
  /\ UNCHANGED <<image_width, image_height, image_buffer, kernel_width, kernel_height,
                 kernel_buffer, xbl, ybl, ch, in2done, fault, image0, kernel0, kernel_log,
                 src_reads, dst_writes>>
  /\ UNCHANGED hvars

\* What a build can do once the call has executed an undefined operation: it
\* stops (a fault), or it runs on and returns with any samples in dst.
HavocSamples == {Q(0), Q(7)}

UndefinedOutcome(what) ==
  /\ fault' = what
  /\ \/ /\ pc' = "crashed"
        /\ UNCHANGED <<dst, rdst, data1, data2>>
     \/ /\ pc' = "done"
        /\ \E v \in HavocSamples : dst' = [p \in DOMAIN dst |-> v]
        /\ data1' = <<>> /\ data2' = <<>> /\ rdst' = <<>>
  /\ UNCHANGED <<image_width, image_height, image_buffer, kernel_width, kernel_height,
                 kernel_buffer, xbl, ybl, ch, in2done, image0, kernel0, kernel_log,
                 src_reads, dst_writes>>
  /\ UNCHANGED hvars

\* a forward FHT2D call that runs past the end of its buffer
ForwardOutOfRange ==
  /\ pc = "forward"
  /\ ~ForwardDefined
  /\ UndefinedOutcome("FHT2D index out of range")

\* fht_convolve with M = 0 or N = 0: a shift by (unsigned)-1
MultiplyBadShift ==
  /\ pc = "multiply"
  /\ ~fht_convolve_defined(log2_h, log2_w)
  /\ UndefinedOutcome("fht_convolve shift out of range")

\* Input images: sample (x, y, c) of pattern pat
ImageSample(pat, x, y, c) ==
  CASE pat = "ramp" -> Q(1 + x + 2 * y + c)
    [] pat = "corner" -> IF x = image_width - 1 /\ y = image_height - 1
                         THEN Q(c + 1) ELSE QZero

ImagePatterns == {"ramp", "corner"}

\* Input kernels: sample (x, y, c) of pattern pat
KernelSample(pat, x, y, c) ==
  CASE pat = "unit" -> QOne
    [] pat = "skew" -> Q(x + 2 * y + c - 1)
    [] pat = "sign" -> IF c = 0 THEN (IF (x + y) % 2 = 0 THEN QOne ELSE Q(-1))
                       ELSE IF c = 1 THEN Q(2) ELSE Q(1 + x)

KernelPatterns == {"unit", "skew", "sign"}

DstJunk == Q(5)

\* the state at the entry of convolve(dst, in1, in2)
ConvolveEntry ==
  /\ pc = "entry"
  /\ image_width \in 1 .. MaxW
  /\ image_height \in 1 .. MaxH
  /\ kernel_width \in 1 .. MaxKW
  /\ kernel_height \in 1 .. MaxKH
  /\ \E pat \in ImagePatterns :
       image_buffer =
         [p \in 0 .. image_width * image_height * COM_DATA_TYPE_COLOR_CHANNELS - 1 |->
            ImageSample(pat, (p \div COM_DATA_TYPE_COLOR_CHANNELS) % image_width,
                        (p \div COM_DATA_TYPE_COLOR_CHANNELS) \div image_width,
                        p % COM_DATA_TYPE_COLOR_CHANNELS)]
  /\ \E pat \in KernelPatterns :
       kernel_buffer =
         [p \in 0 .. kernel_width * kernel_height * COM_DATA_TYPE_COLOR_CHANNELS - 1 |->
            KernelSample(pat, (p \div COM_DATA_TYPE_COLOR_CHANNELS) % kernel_width,
                         (p \div COM_DATA_TYPE_COLOR_CHANNELS) \div kernel_width,
                         p % COM_DATA_TYPE_COLOR_CHANNELS)]
  /\ dst = [p \in 0 .. image_width * image_height * COM_DATA_TYPE_COLOR_CHANNELS - 1 |->
              DstJunk]
  /\ rdst = <<>> /\ data1 = <<>> /\ data2 = <<>>
  /\ xbl = 0 /\ ybl = 0 /\ ch = 0 /\ in2done = FALSE
  /\ fault = "none"
  /\ image0 = image_buffer /\ kernel0 = kernel_buffer /\ kernel_log = <<>>
  /\ src_reads = {} /\ dst_writes = {}

\* the state of the harness while a convolve call is modelled
HarnessIdle ==
  /\ stage = "idle" /\ buf = <<>> /\ bufB = <<>> /\ buf0 = <<>>
  /\ dimM = 0 /\ dimN = 0 /\ loc = <<>>

Init == ConvolveEntry /\ HarnessIdle

Next ==
  \/ Allocate
  \/ Normalize
  \/ LoadKernel
  \/ LoadTile
  \/ Forward
  \/ ForwardOutOfRange
  \/ Multiply
  \/ MultiplyBadShift
  \/ Inverse
  \/ Accumulate
  \/ Finish

Spec == Init /\ [][Next]_vars

-----------------------------------------------------------------------------
(* Claims about convolve (specification Spec).                             *)

\* the normalization the specification describes: a channel with sum s # 0 is
\* divided by s, a channel with sum 0 is left as it is
DescribedKernel(kbuf) ==
  [p \in DOMAIN kbuf |->
     LET s == KernelSum(kbuf, p % COM_DATA_TYPE_COLOR_CHANNELS, 0)
     IN  IF p % COM_DATA_TYPE_COLOR_CHANNELS < 3 /\ s # QZero
         THEN QMul(kbuf[p], QInv(s)) ELSE kbuf[p]]

\* sum over the kernel positions p .. kw*kh-1 of Kn[kx,ky,c] * src[X+hw-kx, Y+hh-ky, c]
RECURSIVE DirectSum(_, _, _, _, _, _)
DirectSum(kn, src, X, Y, c, p) ==
  IF p >= kernel_width * kernel_height THEN QZero
  ELSE LET kx == p % kernel_width
           ky == p \div kernel_width
           sx == X + hw - kx
           sy == Y + hh - ky
           term == IF InImage(<<sx, sy>>)
                   THEN QMul(kn[Pix(kx, ky, c, kernel_width)],
                             src[Pix(sx, sy, c, image_width)])
                   ELSE QZero
       IN  QAdd(term, DirectSum(kn, src, X, Y, c, p + 1))

\* dst holds the direct linear convolution of src with kn on the colour channels
IsDirectConvolution(d, kn, src) ==
  \A X \in 0 .. image_width - 1 : \A Y \in 0 .. image_height - 1 :
    \A c \in 0 .. NumChannels - 1 :
      d[Pix(X, Y, c, image_width)] = DirectSum(kn, src, X, Y, c, 0)

\* C1: when convolve has returned, it has executed no undefined operation and
\* every colour channel of every destination pixel equals the direct linear
\* convolution of the source with the normalized kernel, for one tile or several.
C1_DirectConvolution ==
  pc \in {"done", "crashed"} =>
    /\ fault = "none"
    /\ pc = "done"
    /\ IsDirectConvolution(dst, kernel_buffer, image0)

\* C2: convolving with the 1x1 kernel of value 1.0 executes no out-of-range
\* index and no undefined shift, completes, and leaves the colour channels of
\* the destination equal to the source image.
IdentityKernel ==
  /\ kernel_width = 1 /\ kernel_height = 1
  /\ \A c \in 0 .. NumChannels - 1 : kernel0[c] = QOne

C2_IdentityKernel ==
  (pc # "idle" /\ IdentityKernel) =>
    /\ fault = "none"
    /\ pc # "crashed"
    /\ pc = "done" =>
         \A p \in DOMAIN image0 :
           p % COM_DATA_TYPE_COLOR_CHANNELS < NumChannels => dst[p] = image0[p]

\* C3: at every forward FHT2D call of convolve, nzp = kernel_height + 1 is at
\* most 2^My, and every row j with nzp <= j < 2^My of the buffer about to be
\* transformed (the kernel channel buffer of the first tile, the tile buffer
\* always) is entirely zero.
C3_ZeroPadRows ==
  pc = "forward" =>
    /\ nzp <= h2
    /\ \A j \in nzp .. h2 - 1 : \A i \in 0 .. w2 - 1 :
         /\ data2[j * w2 + i] = QZero
         /\ ~in2done => data1[ch * w2 * h2 + j * w2 + i] = QZero

\* C4: after the normalization, a kernel channel whose samples sum to zero
\* has its samples unchanged, and a channel with sum s # 0 has every sample
\* multiplied by 1/s, so that it sums to 1.
C4_Normalization ==
  pc \notin {"idle", "entry", "normalize"} =>
    /\ kernel_buffer = DescribedKernel(kernel0)
    /\ \A c \in 0 .. NumChannels - 1 :
         KernelSum(kernel0, c, 0) # QZero => KernelSum(kernel_buffer, c, 0) = QOne

C6_IndicesInImage ==
  /\ \A xy \in src_reads : InImage(xy)
  /\ \A xy \in dst_writes : InImage(xy)
  /\ fault \notin {"source index out of range", "destination index out of range"}

\* a border tile: part of the tile and part of its shifted result lie outside
\* the image and were skipped, the rest was copied and accumulated
C6_Witness ==
  /\ pc \in {"kernel", "finish"}
  /\ src_reads # {} /\ Cardinality(src_reads) < xbsz * ybsz
  /\ dst_writes # {} /\ Cardinality(dst_writes) < w2 * h2
  /\ xbl + ybl > 0

-----------------------------------------------------------------------------
(* Harness of FHT: a buffer of length 2^dimM is transformed forward, and   *)
(* then either inverse-transformed or forward-transformed again.           *)

SampleVals == {Q(-1), Q(0), Q(2)}

InitFHT ==
  /\ stage = "x"
  /\ dimM \in 1 .. MaxM1
  /\ dimN = 0
  /\ buf \in [0 .. Shl(1, dimM) - 1 -> SampleVals]
  /\ buf0 = buf
  /\ bufB = <<>>
  /\ loc = <<>>
  /\ ConvolveIdle

ForwardFHT ==
  /\ stage \in {"x", "F"}
  /\ buf' = FHT(buf, 0, dimM, 0)
  /\ stage' = (IF stage = "x" THEN "F" ELSE "FF")
  /\ UNCHANGED <<bufB, buf0, dimM, dimN, loc>>
  /\ UNCHANGED cvars

InverseFHT ==
  /\ stage = "F"
  /\ buf' = FHT(buf, 0, dimM, 1)
  /\ stage' = "FI"
  /\ UNCHANGED <<bufB, buf0, dimM, dimN, loc>>
  /\ UNCHANGED cvars

NextFHT == ForwardFHT \/ InverseFHT

SpecFHT == InitFHT /\ [][NextFHT]_vars

-----------------------------------------------------------------------------
(* Harness of the transpose step of FHT2D: a buffer of 2^dimM columns and  *)
(* 2^dimN rows is transposed, and then transposed again with the two       *)
(* dimensions swapped (as the inverse FHT2D call of convolve does).        *)

TransposeInputs(len) ==
  {[p \in 0 .. len - 1 |-> Q(p + c)] : c \in 0 .. 2} \cup {[p \in 0 .. len - 1 |-> Q(len - p)]}

InitTranspose ==
  /\ stage = "x"
  /\ dimM \in 0 .. MaxMT
  /\ dimN \in 0 .. MaxMT
  /\ buf \in TransposeInputs(Shl(1, dimM + dimN))
  /\ buf0 = buf
  /\ bufB = <<>>
  /\ loc = <<>>
  /\ ConvolveIdle

TransposeOnce ==
  /\ stage = "x"
  /\ buf' = Transpose(buf, 0, dimM, dimN)
  /\ stage' = "T"
  /\ UNCHANGED <<bufB, buf0, dimM, dimN, loc>>
  /\ UNCHANGED cvars

TransposeBack ==
  /\ stage = "T"
  /\ buf' = Transpose(buf, 0, dimN, dimM)
  /\ stage' = "TT"
  /\ UNCHANGED <<bufB, buf0, dimM, dimN, loc>>
  /\ UNCHANGED cvars

NextTranspose == TransposeOnce \/ TransposeBack

SpecTranspose == InitTranspose /\ [][NextTranspose]_vars

-----------------------------------------------------------------------------
(* Harness of the spectral multiplication: buf and bufB hold two spatial   *)
(* signals of 2^dimM columns and 2^dimN rows; both are forward-transformed *)
(* (all rows: nzp = Ny), multiplied on the transposed layout, and buf is   *)
(* inverse-transformed.                                                    *)

Impulse(len, at) == [p \in 0 .. len - 1 |-> IF p = at THEN QOne ELSE QZero]

SignalsA(len) == {Impulse(len, at) : at \in 0 .. len - 1}
                   \cup {[p \in 0 .. len - 1 |-> Q(p - 2)]}

SignalsB(len) == {Impulse(len, 1), Impulse(len, len - 1),
                  [p \in 0 .. len - 1 |-> Q(((p * p) % 5) - 1)]}

InitMultiply ==
  /\ stage = "x"
  /\ dimM \in 1 .. MaxMC
  /\ dimN \in 1 .. MaxMC
  /\ buf \in SignalsA(Shl(1, dimM + dimN))
  /\ bufB \in SignalsB(Shl(1, dimM + dimN))
  /\ buf0 = <<buf, bufB>>
  /\ loc = <<>>
  /\ ConvolveIdle

TransformBoth ==
  /\ stage = "x"
  /\ buf' = FHT2D(buf, 0, dimM, dimN, Shl(1, dimN), 0)
  /\ bufB' = FHT2D(bufB, 0, dimM, dimN, Shl(1, dimN), 0)
  /\ stage' = "F"
  /\ UNCHANGED <<buf0, dimM, dimN, loc>>
  /\ UNCHANGED cvars

MultiplySpectra ==
  /\ stage = "F"
  /\ buf' = fht_convolve(buf, 0, bufB, 0, dimN, dimM)
  /\ stage' = "FM"
  /\ UNCHANGED <<bufB, buf0, dimM, dimN, loc>>
  /\ UNCHANGED cvars

TransformBack ==
  /\ stage = "FM"
  /\ buf' = FHT2D(buf, 0, dimN, dimM, 0, 1)
  /\ stage' = "FMI"
  /\ UNCHANGED <<bufB, buf0, dimM, dimN, loc>>
  /\ UNCHANGED cvars

NextMultiply == TransformBoth \/ MultiplySpectra \/ TransformBack

SpecMultiply == InitMultiply /\ [][NextMultiply]_vars

-----------------------------------------------------------------------------
(* Claims about the transform routines.                                    *)

Scaled(f, n) == [p \in DOMAIN f |-> QMul(Q(n), f[p])]

\* C7: the forward FHT followed by the inverse FHT returns the buffer, and
\* the forward FHT applied twice returns 2^M times the buffer.
C7_RoundTrip ==
  /\ stage = "FI" => buf = buf0
  /\ stage = "FF" => buf = Scaled(buf0, Shl(1, dimM))

C7_Witness ==
  /\ stage = "FI" /\ dimM = 2
  /\ buf0[0] # buf0[1] /\ buf0[2] # buf0[3] /\ buf0[0] # QZero

\* C8: the forward FHT of [a, b] is [a+b, a-b], and the forward FHT of
\* [a, b, c, d] is [a+b+c+d, a+b-c-d, a-b+c-d, a-b-c+d].
C8_SmallTransforms ==
  stage = "F" =>
    LET a == buf0[0]
        b == buf0[1]
    IN  /\ dimM = 1 => buf = [p \in 0 .. 1 |-> IF p = 0 THEN QAdd(a, b) ELSE QSub(a, b)]
        /\ dimM = 2 =>
             LET c == buf0[2]
                 d == buf0[3]
             IN  /\ buf[0] = QAdd(QAdd(a, b), QAdd(c, d))
                 /\ buf[1] = QSub(QAdd(a, b), QAdd(c, d))
                 /\ buf[2] = QAdd(QSub(a, b), QSub(c, d))
                 /\ buf[3] = QSub(QSub(a, b), QSub(c, d))
                 /\ DOMAIN buf = 0 .. 3

C8_Witness ==
  /\ stage = "F" /\ dimM = 2
  /\ buf0[0] = Q(2) /\ buf0[1] = Q(-1) /\ buf0[2] = Q(0) /\ buf0[3] = Q(2)

\* C9: the transpose step of FHT2D (cycle-following for Mx # My, direct swap
\* for Mx = My) gives the reference transpose new[j + i*Ny] = old[i + j*Nx],
\* and applying it again with the two dimensions swapped restores the buffer.
C9_Transpose ==
  /\ stage = "T" =>
       /\ DOMAIN buf = DOMAIN buf0
       /\ \A i \in 0 .. Shl(1, dimM) - 1 : \A j \in 0 .. Shl(1, dimN) - 1 :
            buf[j + i * Shl(1, dimN)] = buf0[i + j * Shl(1, dimM)]
  /\ stage = "TT" => buf = buf0

\* a non-square buffer (4 columns, 8 rows) has been transposed in place
C9_Witness ==
  /\ stage = "T" /\ dimM = 2 /\ dimN = 3
  /\ buf # buf0

\* sum over the positions p .. Nx*Ny-1 of a[p] * b[(x - px) mod Nx, (y - py) mod Ny]
RECURSIVE CircularSum(_, _, _, _, _, _, _)
CircularSum(a, b, x, y, Nx, Ny, p) ==
  IF p >= Nx * Ny THEN QZero
  ELSE QAdd(QMul(a[p], b[((x - (p % Nx)) % Nx) + Nx * ((y - (p \div Nx)) % Ny)]),
            CircularSum(a, b, x, y, Nx, Ny, p + 1))

\* C10: forward FHT2D of a and b, fht_convolve on the transposed layout and
\* the inverse FHT2D leave in the first buffer, in row-major layout, the 2D
\* circular convolution of a and b, and leave the second buffer as the forward
\* transform left it.
C10_CircularConvolution ==
  /\ stage = "FMI" =>
       /\ DOMAIN buf = DOMAIN buf0[1]
       /\ \A x \in 0 .. Shl(1, dimM) - 1 : \A y \in 0 .. Shl(1, dimN) - 1 :
            buf[x + Shl(1, dimM) * y] =
              CircularSum(buf0[1], buf0[2], x, y, Shl(1, dimM), Shl(1, dimN), 0)
  /\ stage \in {"FM", "FMI"} =>
       bufB = FHT2D(buf0[2], 0, dimM, dimN, Shl(1, dimN), 0)

\* a dense signal convolved with a dense signal on a non-square grid
C10_Witness ==
  /\ stage = "FMI" /\ dimM = 2 /\ dimN = 1
  /\ buf0[1][0] = Q(-2) /\ buf0[2][2] = Q(3)
  /\ buf # buf0[1]

-----------------------------------------------------------------------------
(* The rectangular transpose loop of FHT2D, followed one loop test per     *)
(* step.  loc holds the position pc in the loop and the locals i, j, k and *)
(* stm, and two records of what the loop has done: starts, the values of i *)
(* from which a cycle was followed, and visits, how many decrements of stm *)
(* were made for each buffer position (the decrement of the cycle loop for *)
(* the position j it has just swapped, the decrement that ends the         *)
(* iteration for i).  stm is an unsigned int in the code; here it is an    *)
(* integer, so that a decrement below zero shows as a negative value (the  *)
(* loop test stm > 0 of the code is stm # 0).                              *)

RectLoopPairs == {d \in (0 .. MaxMT) \X (0 .. MaxMT) : d[1] # d[2]}

\* unsigned int k, Nym = Ny - 1, stm = 1 << (Mx + My); i = 0
InitRectLoop ==
  /\ stage = "loop"
  /\ \E d \in RectLoopPairs : dimM = d[1] /\ dimN = d[2]
  /\ buf = [p \in 0 .. Shl(1, dimM + dimN) - 1 |-> Q(p)]
  /\ buf0 = buf
  /\ bufB = <<>>
  /\ loc = [pc |-> "test", i |-> 0, j |-> 0, k |-> 0, stm |-> Shl(1, dimM + dimN),
            starts |-> {}, visits |-> [p \in 0 .. Shl(1, dimM + dimN) - 1 |-> 0]]
  /\ ConvolveIdle

\* PRED with the Nym, Mx, My of the buffer under transposition
RectPRED(k) == PRED(k, Shl(1, dimN) - 1, dimM, dimN)

\* (mutant of StmAfterCycle: the decrement is missing)
StmAfterCycle_kept(stm) == stm

\* the stm-- that ends the iteration of the outer loop
StmAfterCycle(stm) == stm - 1

\* stm > 0 holds: j = PRED(i); the loop is followed up to the first i past
\* the end of the buffer
RectEnter ==
  /\ stage = "loop" /\ loc.pc = "test"
  /\ loc.stm # 0
  /\ loc.i <= Shl(1, dimM + dimN)
  /\ loc' = [loc EXCEPT !.pc = "scan", !.j = RectPRED(loc.i)]
  /\ UNCHANGED <<stage, buf, bufB, buf0, dimM, dimN>>
  /\ UNCHANGED cvars

\* for (...; j > i; j = PRED(j)) {}
RectScan ==
  /\ stage = "loop" /\ loc.pc = "scan"
  /\ loc.j > loc.i
  /\ loc' = [loc EXCEPT !.j = RectPRED(loc.j)]
  /\ UNCHANGED <<stage, buf, bufB, buf0, dimM, dimN>>
  /\ UNCHANGED cvars

\* if (j < i) continue;
RectContinue ==
  /\ stage = "loop" /\ loc.pc = "scan"
  /\ ~(loc.j > loc.i)
  /\ loc.j < loc.i
  /\ loc' = [loc EXCEPT !.pc = "test", !.i = loc.i + 1]
  /\ UNCHANGED <<stage, buf, bufB, buf0, dimM, dimN>>
  /\ UNCHANGED cvars

\* k = i, j = PRED(i): the cycle through i is followed
RectCycleBegin ==
  /\ stage = "loop" /\ loc.pc = "scan"
  /\ ~(loc.j > loc.i)
  /\ ~(loc.j < loc.i)
  /\ loc' = [loc EXCEPT !.pc = "cycle", !.k = loc.i, !.j = RectPRED(loc.i),
                        !.starts = loc.starts \cup {loc.i}]
  /\ UNCHANGED <<stage, buf, bufB, buf0, dimM, dimN>>
  /\ UNCHANGED cvars

\* j != i: SWAP(data[j], data[k]); k = j, j = PRED(j), stm--
RectSwap ==
  /\ stage = "loop" /\ loc.pc = "cycle"
  /\ loc.j # loc.i
  /\ buf' = Swap(buf, loc.j, loc.k)
  /\ loc' = [loc EXCEPT !.k = loc.j, !.j = RectPRED(loc.j), !.stm = loc.stm - 1,
                        !.visits[loc.j] = @ + 1]
  /\ UNCHANGED <<stage, bufB, buf0, dimM, dimN>>
  /\ UNCHANGED cvars

\* j == i: the cycle is closed; stm--; i++
RectCycleEnd ==
  /\ stage = "loop" /\ loc.pc = "cycle"
  /\ loc.j = loc.i
  /\ loc' = [loc EXCEPT !.pc = "test", !.i = loc.i + 1, !.stm = StmAfterCycle(loc.stm),
                        !.visits[loc.i] = @ + 1]
  /\ UNCHANGED <<stage, buf, bufB, buf0, dimM, dimN>>
  /\ UNCHANGED cvars

\* the loop test stm > 0 fails
RectLoopExit ==
  /\ stage = "loop" /\ loc.pc = "test"
  /\ loc.stm = 0
  /\ stage' = "T"
  /\ UNCHANGED <<buf, bufB, buf0, dimM, dimN, loc>>
  /\ UNCHANGED cvars

NextRectLoop ==
  \/ RectEnter
  \/ RectScan
  \/ RectContinue
  \/ RectCycleBegin
  \/ RectSwap
  \/ RectCycleEnd
  \/ RectLoopExit

\* the loop is a sequential program: it takes its next step
SpecRectLoop == InitRectLoop /\ [][NextRectLoop]_vars /\ WF_vars(NextRectLoop)

-----------------------------------------------------------------------------
(* Claims about the rectangular transpose loop.                            *)

\* the positions of the cycle of PRED through i, from j on
RECURSIVE CycleOf(_, _)
CycleOf(j, i) == IF j = i THEN {i} ELSE {j} \cup CycleOf(RectPRED(j), i)

\* f[lo] + ... + f[hi]
RECURSIVE SumOver(_, _, _)
SumOver(f, lo, hi) ==
  IF lo > hi THEN 0
  ELSE IF lo = hi THEN f[lo]
  ELSE SumOver(f, lo, (lo + hi) \div 2) + SumOver(f, ((lo + hi) \div 2) + 1, hi)

RectLoopInvariant ==
  stage \in {"loop", "T"} =>
    LET N == Shl(1, dimM + dimN)
    IN  /\ loc.stm >= 0
        /\ loc.stm + SumOver(loc.visits, 0, N - 1) = N
        /\ \A p \in 0 .. N - 1 : loc.visits[p] <= 1
        /\ loc.stm # 0 => loc.i < N
        /\ \A s \in loc.starts : \A p \in CycleOf(RectPRED(s), s) : s <= p
        /\ stage = "T" =>
             /\ loc.stm = 0
             /\ \A p \in 0 .. N - 1 :
                  /\ loc.visits[p] = 1
                  /\ Cardinality(loc.starts \cap CycleOf(RectPRED(p), p)) = 1
             /\ buf = Transpose(buf0, 0, dimM, dimN)

\* C11: for Mx # My the rectangular transpose loop terminates; stm, started
\* at 2^(Mx+My), is decremented exactly once for every buffer position (so
\* by the length of each followed cycle), never below 0, and is 0 when the
\* loop ends; i stays below 2^(Mx+My) while stm > 0; every cycle of PRED is
\* followed exactly once, and from its smallest index.
C11_RectLoopTerminates == []RectLoopInvariant /\ <>(stage = "T")

\* the loop has ended on a 4 x 8 buffer after following several cycles
C11_Witness ==
  /\ stage = "T" /\ dimM = 2 /\ dimN = 3
  /\ Cardinality(loc.starts) > 2
  /\ \E s \in loc.starts : RectPRED(s) # s
  /\ buf # buf0

-----------------------------------------------------------------------------
(* The bit-reversal loop of FHT with its helper revbin_upd, followed one   *)
(* loop test per step.  loc holds the position pc ("for": the test of the  *)
(* for loop, "while": the test of the while loop of revbin_upd), the       *)
(* locals i and j of FHT and r and h of revbin_upd, and two records:       *)
(* calls, the values of r the helper was called with, and swaps, the       *)
(* pairs <<i, j>> the loop has swapped, in order.                          *)

MaxMR == 5      \* bit-reversal loops of length 2 .. 2^MaxMR

\* int i, j = 0; unsigned int Nh = len >> 1; i = 1
InitRevbin ==
  /\ stage = "revbin"
  /\ dimM \in 1 .. MaxMR
  /\ dimN = 0
  /\ buf = [p \in 0 .. Shl(1, dimM) - 1 |-> Q(p)]
  /\ buf0 = buf
  /\ bufB = <<>>
  /\ loc = [pc |-> "for", i |-> 1, j |-> 0, r |-> 0, h |-> 0,
            calls |-> {}, swaps |-> <<>>]
  /\ ConvolveIdle

\* i < len - 1 holds: the call revbin_upd(j, Nh) starts
RevbinCall ==
  /\ stage = "revbin" /\ loc.pc = "for"
  /\ loc.i < Shl(1, dimM) - 1
  /\ loc' = [loc EXCEPT !.pc = "while", !.r = loc.j, !.h = Shr(Shl(1, dimM), 1),
                        !.calls = loc.calls \cup {loc.j}]
  /\ UNCHANGED <<stage, buf, bufB, buf0, dimM, dimN>>
  /\ UNCHANGED cvars

\* while (!((r ^= h) & h)) h >>= 1;  -- the test holds
RevbinShift ==
  /\ stage = "revbin" /\ loc.pc = "while"
  /\ BitAnd(BitXor(loc.r, loc.h), loc.h) = 0
  /\ loc' = [loc EXCEPT !.r = BitXor(loc.r, loc.h), !.h = Shr(loc.h, 1)]
  /\ UNCHANGED <<stage, buf, bufB, buf0, dimM, dimN>>
  /\ UNCHANGED cvars

\* the test fails: return r; j = r; if (j > i) swap data[i], data[j]; i++
RevbinReturn ==
  /\ stage = "revbin" /\ loc.pc = "while"
  /\ BitAnd(BitXor(loc.r, loc.h), loc.h) # 0
  /\ buf' = FHT_revbin_swap(buf, 0, loc.i, BitXor(loc.r, loc.h))
  /\ loc' = [loc EXCEPT !.pc = "for", !.r = BitXor(loc.r, loc.h),
                        !.j = BitXor(loc.r, loc.h), !.i = loc.i + 1,
                        !.swaps = IF buf' # buf
                                  THEN Append(loc.swaps, <<loc.i, BitXor(loc.r, loc.h)>>)
                                  ELSE loc.swaps]
  /\ UNCHANGED <<stage, bufB, buf0, dimM, dimN>>
  /\ UNCHANGED cvars

\* i < len - 1 fails: the loop ends
RevbinExit ==
  /\ stage = "revbin" /\ loc.pc = "for"
  /\ ~(loc.i < Shl(1, dimM) - 1)
  /\ stage' = "R"
  /\ UNCHANGED <<buf, bufB, buf0, dimM, dimN, loc>>
  /\ UNCHANGED cvars

NextRevbin == RevbinCall \/ RevbinShift \/ RevbinReturn \/ RevbinExit

\* the loop is a sequential program: it takes its next step
SpecRevbin == InitRevbin /\ [][NextRevbin]_vars /\ WF_vars(NextRevbin)

-----------------------------------------------------------------------------
(* Claims about the bit-reversal loop.                                     *)

\* the M-bit reversal of x
RECURSIVE BitRev(_, _)
BitRev(x, M) == IF M = 0 THEN 0 ELSE (x % 2) * Pow2(M - 1) + BitRev(x \div 2, M - 1)

RevbinInvariant ==
  stage \in {"revbin", "R"} =>
    LET len == Shl(1, dimM)
    IN  \* the helper is never called with all M bits set, and its mask stays non-zero
        /\ len - 1 \notin loc.calls
        /\ loc.pc = "while" => loc.h >= 1
        \* at the loop test, j is the bit reversal of the index just handled
        /\ loc.pc = "for" => loc.j = BitRev(loc.i - 1, dimM)
        \* every swap is of a pair {i, bitrev(i)} with i < bitrev(i), made once
        /\ \A n \in 1 .. Len(loc.swaps) :
             /\ loc.swaps[n][2] = BitRev(loc.swaps[n][1], dimM)
             /\ loc.swaps[n][1] < loc.swaps[n][2]
             /\ \A q \in 1 .. Len(loc.swaps) :
                  q # n => {loc.swaps[q][1], loc.swaps[q][2]}
                             \cap {loc.swaps[n][1], loc.swaps[n][2]} = {}
        /\ stage = "R" =>
             /\ \A p \in 0 .. len - 1 : buf[p] = buf0[BitRev(p, dimM)]
             /\ \A p \in 0 .. len - 1 :
                  p < BitRev(p, dimM) =>
                    \E n \in 1 .. Len(loc.swaps) : loc.swaps[n] = <<p, BitRev(p, dimM)>>
             /\ buf = FHT_revbin(buf0, 0, 1, 0, len, Shr(len, 1))

\* C12: for M >= 1 the bit-reversal loop of FHT leaves data[i] = old[bitrev(i)];
\* j is the M-bit reversal of i at each step; each pair {i, bitrev(i)} with
\* i # bitrev(i) is swapped exactly once; revbin_upd is never called with
\* r = 2^M - 1, its mask h never reaches 0, and the loop ends.
C12_BitReversal == []RevbinInvariant /\ <>(stage = "R")

\* a loop of length 16 has ended after swapping 6 pairs
C12_Witness ==
  /\ stage = "R" /\ dimM = 4
  /\ Len(loc.swaps) = 6
  /\ buf # buf0

-----------------------------------------------------------------------------
(* Claims about the kernel spectra in convolve (specification Spec).       *)

\* the copies and transforms of the three kernel channels, in loop order
KernelLogFull ==
  <<  <<"copy", 0>>, <<"FHT2D", 0>>, <<"copy", 1>>, <<"FHT2D", 1>>,
      <<"copy", 2>>, <<"FHT2D", 2>>  >>

\* channel c of data1 is the transform of the zero-padded copy of kernel channel c
KernelSpectrumHeld(c) ==
  LET t == FHT2D(CopyKernel(Zeros(3 * w2 * h2), kernel_buffer, c),
                 c * w2 * h2, log2_w, log2_h, nzp, 0)
  IN  \A q \in 0 .. w2 * h2 - 1 : data1[c * w2 * h2 + q] = t[c * w2 * h2 + q]

C13_KernelState ==
  pc # "idle" =>
    \* each channel is copied and then transformed, once, in the order of the loop
    /\ Len(kernel_log) <= Len(KernelLogFull)
    /\ kernel_log = SubSeq(KernelLogFull, 1, Len(kernel_log))
    \* ... during the first tile, at whose end all three have been handled
    /\ ~in2done => xbl = 0 /\ ybl = 0
    /\ in2done => kernel_log = KernelLogFull
    \* ... and before fht_convolve uses the channel
    /\ pc = "multiply" =>
         /\ \E n \in 1 .. Len(kernel_log) : kernel_log[n] = <<"FHT2D", ch>>
         /\ KernelSpectrumHeld(ch)

C13_KernelStep ==
  \* after the first tile no step writes data1 until it is freed
  /\ in2done /\ pc # "finish" => data1' = data1 /\ kernel_log' = kernel_log
  \* during the first tile a step writes only the channel it is handling
  /\ pc \in {"kernel", "tile", "forward", "multiply", "inverse", "add"}
       /\ pc' \notin {"done", "crashed"} =>
       \A p \in DOMAIN data1 :
         (p < ch * w2 * h2 \/ p >= (ch + 1) * w2 * h2) => data1'[p] = data1[p]

\* C13: each kernel channel is copied into data1 and forward-transformed
\* exactly once, during the first tile and before fht_convolve first uses it;
\* in every later tile data1 is neither rewritten nor transformed again and
\* holds the values it had at the end of the first tile.
C13_KernelOnce == []C13_KernelState /\ [][C13_KernelStep]_vars

\* fht_convolve is about to use a kernel spectrum in a tile after the first
C13_Witness ==
  /\ pc = "multiply" /\ fault = "none"
  /\ in2done /\ xbl + ybl > 0
  /\ kernel_log = KernelLogFull
  /\ \E p \in DOMAIN data1 : data1[p] # QZero

-----------------------------------------------------------------------------
(* next_pow2 and the block set-up of convolve at the width of unsigned     *)
(* int.  A 32-bit value is a pair <<hi, lo>> of 16-bit halves, standing    *)
(* for hi * 2^16 + lo; arithmetic is modulo 2^32 as in the code.           *)

LimbBase == Pow2(16)

U32(n) == <<n \div LimbBase, n % LimbBase>>
U32Zero == <<0, 0>>
U32One == <<0, 1>>

U32Add(a, b) ==
  <<(a[1] + b[1] + ((a[2] + b[2]) \div LimbBase)) % LimbBase, (a[2] + b[2]) % LimbBase>>

U32Sub(a, b) ==
  <<(a[1] - b[1] - (IF a[2] < b[2] THEN 1 ELSE 0) + 2 * LimbBase) % LimbBase,
    (a[2] - b[2] + LimbBase) % LimbBase>>

\* x << 1 and x >> 1
U32Shl1(a) == <<(2 * a[1] + (2 * a[2]) \div LimbBase) % LimbBase, (2 * a[2]) % LimbBase>>
U32Shr1(a) == <<a[1] \div 2, (a[2] \div 2) + (a[1] % 2) * (LimbBase \div 2)>>

U32And(a, b) == <<BitAnd(a[1], b[1]), BitAnd(a[2], b[2])>>

U32Less(a, b) == a[1] < b[1] \/ (a[1] = b[1] /\ a[2] < b[2])

\* 1 << L2, for L2 < 32
RECURSIVE U32Pow2(_)
U32Pow2(L2) == IF L2 = 0 THEN U32One ELSE U32Shl1(U32Pow2(L2 - 1))

\* while (x >>= 1) ++(*L2);
RECURSIVE U32Log2Floor(_)
U32Log2Floor(x) == IF U32Shr1(x) = U32Zero THEN 0 ELSE 1 + U32Log2Floor(U32Shr1(x))

\* next_pow2(x, &L2) on unsigned int: returns [pw, L2]
next_pow2_u32(x) ==
  LET x_notpow2 == U32And(x, U32Sub(x, U32One))
      L2 == U32Log2Floor(x)
      pw == U32Pow2(L2)
  IN  IF x_notpow2 # U32Zero THEN [pw |-> U32Shl1(pw), L2 |-> L2 + 1]
                             ELSE [pw |-> pw, L2 |-> L2]

\* w2 = 2 * kernel_width - 1, the argument of next_pow2
ConvolutionSize(k) == U32Sub(U32Shl1(U32(k)), U32One)

\* xbsz = (w2 + 1) - kernel_width
BlockSize(p, k) == U32Sub(U32Add(p, U32One), U32(k))

\* nxb = image_width / xbsz; if (image_width % xbsz) nxb++;  -- unsigned division
\* of an image dimension below 2^16; a zero divisor has no defined result
BlockCount(len, bsz) ==
  IF bsz = U32Zero THEN 0
  ELSE IF bsz[1] # 0 THEN 1
  ELSE (len \div bsz[2]) + (IF len % bsz[2] # 0 THEN 1 ELSE 0)

MaxK == 12      \* kernel dimensions 1 .. MaxK, and the large ones below
MaxImg == 8     \* image dimensions 1 .. MaxImg

\* kernel dimensions near the limits of the 32-bit arithmetic
LargeKernelDims == {Pow2(30) - 1, Pow2(30), Pow2(30) + 1, (Pow2(30) - 1) + Pow2(30)}

InitBlocks ==
  /\ stage = "dims"
  /\ dimM \in (1 .. MaxK) \cup LargeKernelDims
  /\ dimN \in 1 .. MaxImg
  /\ buf = <<>> /\ bufB = <<>> /\ buf0 = <<>>
  /\ loc = <<>>
  /\ ConvolveIdle

\* w2 = 2 * kernel_width - 1; w2 = next_pow2(w2, &log2_w);
BlocksNextPow2 ==
  /\ stage = "dims"
  /\ loc' = next_pow2_u32(ConvolutionSize(dimM))
  /\ stage' = "pow2"
  /\ UNCHANGED <<buf, bufB, buf0, dimM, dimN>>
  /\ UNCHANGED cvars

\* xbsz = (w2 + 1) - kernel_width; nxb = image_width / xbsz; ...
BlocksSetup ==
  /\ stage = "pow2"
  /\ loc' = [pw |-> loc.pw, L2 |-> loc.L2, bsz |-> BlockSize(loc.pw, dimM),
             nb |-> BlockCount(dimN, BlockSize(loc.pw, dimM))]
  /\ stage' = "blocks"
  /\ UNCHANGED <<buf, bufB, buf0, dimM, dimN>>
  /\ UNCHANGED cvars

NextBlocks == BlocksNextPow2 \/ BlocksSetup

SpecBlocks == InitBlocks /\ [][NextBlocks]_vars

-----------------------------------------------------------------------------
(* Claims about the transform and block sizes (specification SpecBlocks).  *)

\* pixel x lies in block t of size bsz (x and t below 2^16)
InBlock(x, t, bsz) ==
  IF bsz[1] # 0 THEN t = 0 ELSE t * bsz[2] <= x /\ x < (t + 1) * bsz[2]

\* p is the smallest power of two that is >= 2k - 1, and p = 2^L
SmallestPow2(p, L, k) ==
  /\ L < 32 /\ p = U32Pow2(L)
  /\ ~U32Less(p, ConvolutionSize(k))
  /\ U32Less(U32Shr1(p), ConvolutionSize(k))

\* b = p + 1 - k (as integers), b >= 1, and the blocks of size b cover 0 .. len-1 once
BlocksFit(p, k, b, nb, len) ==
  /\ b # U32Zero /\ b[1] < LimbBase \div 2
  /\ ~U32Less(U32Add(p, U32One), U32(k))
  /\ U32Add(b, U32(k - 1)) = p
  /\ nb = BlockCount(len, b)
  /\ \A x \in 0 .. len - 1 : Cardinality({t \in 0 .. nb - 1 : InBlock(x, t, b)}) = 1
  /\ \A t \in 0 .. nb - 1 : \E x \in 0 .. len - 1 : InBlock(x, t, b)

-----------------------------------------------------------------------------
(* fht_convolve followed one statement group or loop iteration per step.   *)
(* buf is d1, bufB is d2, buf0 = <<d1, d2>> as they were at the call.  loc *)
(* holds the position pc, the loop variables i and j, writes (how often    *)
(* each bin of d1 has been stored to) and touched (every index read or     *)
(* written in d1 or d2 so far).                                            *)

MaxMB == 3      \* spectra of 2^M x 2^N bins, M, N in 1 .. MaxMB

BinPatterns(len) ==
  { <<[p \in 0 .. len - 1 |-> Q(p + 1)], [p \in 0 .. len - 1 |-> Q(2 * p - 3)]>>,
    <<[p \in 0 .. len - 1 |-> Q(((p * p) % 7) - 2)], [p \in 0 .. len - 1 |-> Q(5 - p)]>> }

\* the record of the stores and accesses of one step at the indices in at
Stored(writes, at) ==
  [p \in DOMAIN writes |-> writes[p] + Cardinality({n \in DOMAIN at : at[n] = p})]

Accessed(touched, at) == touched \cup {at[n] : n \in DOMAIN at}

\* unsigned int m = 1 << M, n = 1 << N; m2 = 1 << (M - 1), n2 = 1 << (N - 1);
\* mn2 = m << (N - 1)
InitBins ==
  /\ stage = "bins"
  /\ dimM \in 1 .. MaxMB
  /\ dimN \in 1 .. MaxMB
  /\ buf0 \in BinPatterns(Shl(1, dimM + dimN))
  /\ buf = buf0[1]
  /\ bufB = buf0[2]
  /\ loc = [pc |-> "fixed", i |-> 1, j |-> 1,
            writes |-> [p \in 0 .. Shl(1, dimM + dimN) - 1 |-> 0], touched |-> {}]
  /\ ConvolveIdle

\* d1[0] *= d2[0]; d1[mn2] *= d2[mn2]; d1[m2] *= d2[m2]; d1[m2 + mn2] *= d2[m2 + mn2]
BinsFixed ==
  /\ stage = "bins" /\ loc.pc = "fixed"
  /\ LET m2 == Shl(1, dimM - 1)
         mn2 == Shl(Shl(1, dimM), dimN - 1)
         at == <<0, mn2, m2, m2 + mn2>>
     IN  /\ buf' = Convolve_fixed(buf, 0, bufB, 0, m2, mn2)
         /\ loc' = [loc EXCEPT !.pc = "rows", !.i = 1,
                               !.writes = Stored(loc.writes, at),
                               !.touched = Accessed(loc.touched, at)]
  /\ UNCHANGED <<stage, bufB, buf0, dimM, dimN>>
  /\ UNCHANGED cvars

\* one iteration of for (i = 1; i < m2; i++) over the rows 0 and n/2
BinsRow ==
  /\ stage = "bins" /\ loc.pc = "rows"
  /\ loc.i < Shl(1, dimM - 1)
  /\ LET m == Shl(1, dimM)
         mn2 == Shl(Shl(1, dimM), dimN - 1)
         i == loc.i
         k == m - i
         at == <<i, k, i + mn2, k + mn2>>
     IN  /\ buf' = MirrorPair(MirrorPair(buf, 0, bufB, 0, i, k),
                              0, bufB, 0, i + mn2, k + mn2)
         /\ loc' = [loc EXCEPT !.i = i + 1,
                               !.writes = Stored(loc.writes, at),
                               !.touched = Accessed(loc.touched, at)]
  /\ UNCHANGED <<stage, bufB, buf0, dimM, dimN>>
  /\ UNCHANGED cvars

\* i < m2 fails: the loop over j of the columns 0 and m/2 starts
BinsRowsEnd ==
  /\ stage = "bins" /\ loc.pc = "rows"
  /\ ~(loc.i < Shl(1, dimM - 1))
  /\ loc' = [loc EXCEPT !.pc = "cols", !.j = 1]
  /\ UNCHANGED <<stage, buf, bufB, buf0, dimM, dimN>>
  /\ UNCHANGED cvars

\* one iteration of for (j = 1; j < n2; j++) over the columns 0 and m/2
BinsCol ==
  /\ stage = "bins" /\ loc.pc = "cols"
  /\ loc.j < Shl(1, dimN - 1)
  /\ LET m2 == Shl(1, dimM - 1)
         mj == Shl(loc.j, dimM)
         mL == Shl(Shl(1, dimN) - loc.j, dimM)
         at == <<mj, mL, m2 + mj, m2 + mL>>
     IN  /\ buf' = MirrorPair(MirrorPair(buf, 0, bufB, 0, mj, mL),
                              0, bufB, 0, m2 + mj, m2 + mL)
         /\ loc' = [loc EXCEPT !.j = loc.j + 1,
                               !.writes = Stored(loc.writes, at),
                               !.touched = Accessed(loc.touched, at)]
  /\ UNCHANGED <<stage, bufB, buf0, dimM, dimN>>
  /\ UNCHANGED cvars

\* j < n2 fails: the nested loops over the interior start
BinsColsEnd ==
  /\ stage = "bins" /\ loc.pc = "cols"
  /\ ~(loc.j < Shl(1, dimN - 1))
  /\ loc' = [loc EXCEPT !.pc = "inner", !.i = 1, !.j = 1]
  /\ UNCHANGED <<stage, buf, bufB, buf0, dimM, dimN>>
  /\ UNCHANGED cvars

\* one iteration of the inner loop over j, for the current i
BinsInner ==
  /\ stage = "bins" /\ loc.pc = "inner"
  /\ loc.i < Shl(1, dimM - 1)
  /\ loc.j < Shl(1, dimN - 1)
  /\ LET i == loc.i
         k == Shl(1, dimM) - loc.i
         mj == Shl(loc.j, dimM)
         mL == Shl(Shl(1, dimN) - loc.j, dimM)
         at == <<i + mj, k + mL, i + mL, k + mj>>
     IN  /\ buf' = MirrorPair(MirrorPair(buf, 0, bufB, 0, i + mj, k + mL),
                              0, bufB, 0, i + mL, k + mj)
         /\ loc' = [loc EXCEPT !.j = loc.j + 1,
                               !.writes = Stored(loc.writes, at),
                               !.touched = Accessed(loc.touched, at)]
  /\ UNCHANGED <<stage, bufB, buf0, dimM, dimN>>
  /\ UNCHANGED cvars

\* j < n2 fails: i++ and the inner loop starts again
BinsInnerNext ==
  /\ stage = "bins" /\ loc.pc = "inner"
  /\ loc.i < Shl(1, dimM - 1)
  /\ ~(loc.j < Shl(1, dimN - 1))
  /\ loc' = [loc EXCEPT !.i = loc.i + 1, !.j = 1]
  /\ UNCHANGED <<stage, buf, bufB, buf0, dimM, dimN>>
  /\ UNCHANGED cvars

\* i < m2 fails: fht_convolve returns
BinsReturn ==
  /\ stage = "bins" /\ loc.pc = "inner"
  /\ ~(loc.i < Shl(1, dimM - 1))
  /\ stage' = "B"
  /\ UNCHANGED <<buf, bufB, buf0, dimM, dimN, loc>>
  /\ UNCHANGED cvars

NextBins ==
  \/ BinsFixed
  \/ BinsRow
  \/ BinsRowsEnd
  \/ BinsCol
  \/ BinsColsEnd
  \/ BinsInner
  \/ BinsInnerNext
  \/ BinsReturn

SpecBins == InitBins /\ [][NextBins]_vars

-----------------------------------------------------------------------------
(* Claims about the bins of fht_convolve (specification SpecBins).         *)

\* the mirror ((m - i) mod m, (n - j) mod n) of bin (i, j) = p, rows of length m
MirrorBin(p, m, n) == ((m - (p % m)) % m) + ((n - (p \div m)) % n) * m

\* the value the claim gives bin p, from the values before the call
MirrorValue(d1, d2, p, q) ==
  IF q = p THEN QMul(d1[p], d2[p])
  ELSE QMul(QAdd(QAdd(QMul(d1[q], d2[p]), QMul(d1[p], d2[q])),
                 QSub(QMul(d1[p], d2[p]), QMul(d1[q], d2[q]))),
            QHalf)

\* C15: for M, N >= 1 fht_convolve accesses only indices in [0, 2^(M+N)),
\* never writes d2, writes every bin of d1 exactly once, and every written bin
\* is computed from values as they were before the call: the self-mirrored
\* bins 0, m2, mn2 and m2 + mn2 are multiplied by the same bin of d2, every
\* other bin (i, j) is combined with its mirror ((m - i) mod m, (n - j) mod n).
C15_MirrorBins ==
  stage \in {"bins", "B"} =>
    LET m == Shl(1, dimM)
        n == Shl(1, dimN)
        m2 == Shl(1, dimM - 1)
        mn2 == Shl(Shl(1, dimM), dimN - 1)
    IN  /\ loc.touched \subseteq 0 .. m * n - 1
        /\ bufB = buf0[2]
        /\ {p \in 0 .. m * n - 1 : MirrorBin(p, m, n) = p} = {0, m2, mn2, m2 + mn2}
        /\ \A p \in 0 .. m * n - 1 :
             /\ loc.writes[p] <= 1
             /\ loc.writes[p] = 0 => buf[p] = buf0[1][p]
             /\ loc.writes[p] = 1 =>
                  buf[p] = MirrorValue(buf0[1], buf0[2], p, MirrorBin(p, m, n))
             /\ loc.writes[p] = loc.writes[MirrorBin(p, m, n)]
        /\ stage = "B" =>
             /\ \A p \in 0 .. m * n - 1 : loc.writes[p] = 1
             /\ loc.touched = 0 .. m * n - 1
             /\ buf = fht_convolve(buf0[1], 0, buf0[2], 0, dimM, dimN)

\* an 8 x 4 spectrum has been multiplied: all three loops have run
C15_Witness ==
  /\ stage = "B" /\ dimM = 3 /\ dimN = 2
  /\ \A p \in DOMAIN loc.writes : loc.writes[p] = 1
  /\ buf # buf0[1]

=============================================================================
